---- MODULE Spec2Model ----
(***************************************************************************)
(* Model of the map storefront of foodhunt                                 *)
(* (client/src/components/map-component.tsx): the catalog fetchers, the    *)
(* local cart state (quantity buttons) and the order submitter, run        *)
(* against a REST server that owns the stock and the orders.               *)
(*                                                                         *)
(* Every asynchronous handler is a task: a record holding its captured     *)
(* arguments and the await it is suspended at.  A task suspended at an     *)
(* await IS a request in flight; one action starts a handler (the code up  *)
(* to its first await) and one action per await resolves the request, as   *)
(* success or as failure, and runs the code up to the next await.          *)
(***************************************************************************)
EXTENDS Integers, Sequences, FiniteSets, TLC

(* ---------------- bounds of the model ---------------- *)
\* largest stock the server starts with
MaxStock == 3
\* Place Order clicks in a run
MaxOrders == 1
\* category chip / sidebar clicks in a run
MaxClicks == 1

(* ---------------- the server's data (environment) ---------------- *)
Products == {"p1", "p2"}

\* GET /products?name=<term>: the products a preference term matches, in the
\* order the server returns them. "p2" matches both terms.
TermProducts(term) ==
  CASE term = "pizza" -> <<"p1", "p2">>
    [] term = "sushi" -> <<"p2">>
    [] OTHER -> <<>>

discountedPrice(p) == IF p = "p1" THEN 100 ELSE 50

\* "p1" starts with the largest stock, "p2" with one less
InitStock == [p \in Products |-> IF p = "p1" THEN MaxStock ELSE MaxStock - 1]

Category(c) ==
  CASE c = "c1" -> [_id |-> "c1", name |-> "Pizza", product_ids |-> <<"p1">>]
    [] c = "c2" -> [_id |-> "c2", name |-> "Sushi", product_ids |-> <<"p2">>]
    [] OTHER    -> [_id |-> "c3", name |-> "Soon", product_ids |-> <<>>]

\* GET /categories
AllCategories == <<Category("c1"), Category("c2"), Category("c3")>>

\* the bodies GET /product-chips may answer with
ChipResponses ==
  { <<>>, <<Category("c1"), Category("c2")>>, <<Category("c3"), Category("c1")>> }

\* the sessions the persisted store may hold when the map is opened
Sessions ==
  { [_id |-> "u1",   userPreferences |-> <<"pizza", "sushi">>],
    [_id |-> "u1",   userPreferences |-> <<>>],
    [_id |-> "none", userPreferences |-> <<>>] }

VARIABLES
  productList,                 \* useState<Product[]>
  productsOfSelectedCategory,  \* useState<Category[]>: the chip list
  foodCategories,              \* useState<Category[]>
  selectedCategory,            \* useState<Category | null>
  session,                     \* state.user of the store: _id, userPreferences
  mounted,                     \* the initial-load effect has run
  tasks,                       \* the asynchronous handler invocations, in start order
  budget,                      \* the clicks the user still makes: orders, clicks
  stock,                       \* server: availableQuantity of each product
  orders,                      \* server: the recorded orders
  users,                       \* server: the documents of the User collection
  calls,                       \* server: the invocations of the user router's handlers
  page                         \* the preferences page: selection, isSubmitting, request

vars == <<productList, productsOfSelectedCategory, foodCategories,
          selectedCategory, session, mounted, tasks, budget, stock, orders,
          users, calls, page>>

NoCategory == [_id |-> "null", name |-> "null", product_ids |-> <<>>]

(* ---------------- helpers ---------------- *)
RECURSIVE Concat(_)
Concat(ss) == IF ss = <<>> THEN <<>> ELSE Head(ss) \o Concat(Tail(ss))

\* the document the server returns for a product
ServerProduct(p) ==
  [_id |-> p, availableQuantity |-> stock[p], discountedPrice |-> discountedPrice(p)]

ServerProducts(ids) == [i \in 1..Len(ids) |-> ServerProduct(ids[i])]

\* the quantity chosen for a product that is already in the catalog is kept
withQty_keepChosen(data) ==
  [i \in 1..Len(data) |->
     [f \in DOMAIN data[i] \cup {"quantity"} |->
        IF f = "quantity"
        THEN IF \E k \in DOMAIN productList : productList[k]._id = data[i]._id
             THEN productList[CHOOSE k \in DOMAIN productList :
                                productList[k]._id = data[i]._id].quantity
             ELSE 1
        ELSE data[i][f]]]

\* data.map((p) => ({ ...p, quantity: 1 }))
withQty(data) ==
  [i \in 1..Len(data) |->
     [f \in DOMAIN data[i] \cup {"quantity"} |->
        IF f = "quantity" THEN 1 ELSE data[i][f]]]

DoneTask(kind) == [kind |-> kind, pc |-> "done"]

SetTask(t, r) == [tasks EXCEPT ![t] = r]

\* what a failed POST /orders is caught as: a response with a message, a
\* response without one, or no response at all (the request never completed)
OrderErrors ==
  { [response |-> TRUE,  message |-> "Out of stock"],
    [response |-> TRUE,  message |-> "none"],
    [response |-> FALSE, message |-> "none"] }

NoError == [response |-> FALSE, message |-> "no error"]

\* the body of a successful POST /orders
OrderReply == [message |-> "Order placed successfully"]

\* the server's handling of a request that succeeds
ServerPostOrder(payload) == Append(orders, payload)

ServerPatchProduct(req) == [stock EXCEPT ![req._id] = req.availableQuantity]

(* ---------------- fetchProducts ---------------- *)
\* the call of fetchProducts(): the tasks it adds (none when the guard returns)
fetchProducts(origin) ==
  IF Len(session.userPreferences) = 0 \/ session._id = "none"
  THEN <<>>
  ELSE << [kind |-> "fetchProducts", pc |-> "get", origin |-> origin,
           prefs |-> session.userPreferences, idx |-> 1,
           allFetched |-> <<>>, outcomes |-> <<>>] >>

\* a failing term throws away what the earlier terms returned
pushFetched_dropOnFailure(allFetched, ok, data) ==
  IF ok THEN allFetched \o withQty(data) ELSE <<>>

\* the body of the loop for one term: try { push(...withQty) } catch { log }
pushFetched(allFetched, ok, data) ==
  IF ok THEN allFetched \o withQty(data) ELSE allFetched

\* the catalog is written after every term, not once after the loop
FetchProductsResponse_eagerWrite(t, ok) ==
  /\ tasks[t].kind = "fetchProducts" /\ tasks[t].pc = "get"
  /\ LET tk   == tasks[t]
         data == ServerProducts(TermProducts(tk.prefs[tk.idx]))
         all  == pushFetched(tk.allFetched, ok, data)
         outs == Append(tk.outcomes, [ok |-> ok, data |-> IF ok THEN data ELSE <<>>])
     IN /\ tasks' = SetTask(t, IF tk.idx < Len(tk.prefs)
                               THEN [tk EXCEPT !.idx = @ + 1, !.allFetched = all,
                                               !.outcomes = outs]
                               ELSE [tk EXCEPT !.pc = "done", !.allFetched = <<>>,
                                               !.outcomes = outs])
        /\ productList' = all
  /\ UNCHANGED <<productsOfSelectedCategory, foodCategories, selectedCategory,
                 session, mounted, budget, stock, orders, users, calls, page>>

\* one GET /products?name=<pref> resolves; the loop goes on or the catalog is set
FetchProductsResponse(t, ok) ==
  /\ tasks[t].kind = "fetchProducts" /\ tasks[t].pc = "get"
  /\ LET tk   == tasks[t]
         data == ServerProducts(TermProducts(tk.prefs[tk.idx]))
         all  == pushFetched(tk.allFetched, ok, data)
         outs == Append(tk.outcomes, [ok |-> ok, data |-> IF ok THEN data ELSE <<>>])
     IN IF tk.idx < Len(tk.prefs)
        THEN /\ tasks' = SetTask(t, [tk EXCEPT !.idx = @ + 1, !.allFetched = all,
                                               !.outcomes = outs])
             /\ UNCHANGED productList
        ELSE /\ tasks' = SetTask(t, [tk EXCEPT !.pc = "done", !.allFetched = <<>>,
                                               !.outcomes = outs])
             /\ productList' = all
  /\ UNCHANGED <<productsOfSelectedCategory, foodCategories, selectedCategory,
                 session, mounted, budget, stock, orders, users, calls, page>>

(* ---------------- fetchCategories ---------------- *)
fetchCategories == << [kind |-> "fetchCategories", pc |-> "get"] >>

FetchCategoriesResponse(t, ok) ==
  /\ tasks[t].kind = "fetchCategories" /\ tasks[t].pc = "get"
  /\ tasks' = SetTask(t, DoneTask("fetchCategories"))
  /\ foodCategories' = IF ok THEN AllCategories ELSE foodCategories
  /\ UNCHANGED <<productList, productsOfSelectedCategory, selectedCategory,
                 session, mounted, budget, stock, orders, users, calls, page>>

(* ---------------- fetchProductsByProductIds ---------------- *)
\* without the short-circuit: a request is sent for the empty list too
fetchProductsByProductIds_noShortCircuit(ids) ==
  << [kind |-> "fetchProductsByProductIds", pc |-> "get", ids |-> ids] >>

\* the synchronous part: the empty list short-circuits, else one request
fetchProductsByProductIds(ids) ==
  IF Len(ids) = 0 THEN <<>>
  ELSE << [kind |-> "fetchProductsByProductIds", pc |-> "get", ids |-> ids] >>

FetchProductsByProductIdsResponse(t, ok) ==
  /\ tasks[t].kind = "fetchProductsByProductIds" /\ tasks[t].pc = "get"
  /\ tasks' = SetTask(t, DoneTask("fetchProductsByProductIds"))
  /\ productList' = IF ok THEN withQty(ServerProducts(tasks[t].ids)) ELSE productList
  /\ UNCHANGED <<productsOfSelectedCategory, foodCategories, selectedCategory,
                 session, mounted, budget, stock, orders, users, calls, page>>

(* ---------------- fetchProductChip ---------------- *)
fetchProductChip(catId) ==
  << [kind |-> "fetchProductChip", pc |-> "chips", catId |-> catId, data |-> <<>>] >>

\* GET /product-chips resolves
FetchProductChipResponse(t, ok, data) ==
  /\ tasks[t].kind = "fetchProductChip" /\ tasks[t].pc = "chips"
  /\ IF ~ok
     THEN /\ tasks' = SetTask(t, DoneTask("fetchProductChip"))
          /\ UNCHANGED <<productList, selectedCategory, productsOfSelectedCategory>>
     ELSE IF Len(data) = 0
     THEN /\ tasks' = SetTask(t, DoneTask("fetchProductChip"))
          /\ productsOfSelectedCategory' = data
          /\ UNCHANGED <<productList, selectedCategory>>
     ELSE IF Len(data[1].product_ids) = 0
     THEN /\ tasks' = SetTask(t, DoneTask("fetchProductChip"))
          /\ productList' = <<>>
          /\ selectedCategory' = data[1]
          /\ productsOfSelectedCategory' = data
     ELSE /\ tasks' = SetTask(t, [tasks[t] EXCEPT !.pc = "search", !.data = data])
          /\ UNCHANGED <<productList, selectedCategory, productsOfSelectedCategory>>
  /\ UNCHANGED <<foodCategories, session, mounted, budget, stock, orders, users, calls, page>>

\* the awaited fetchProductsByProductIds(first.product_ids) resolves
FetchProductChipSearchResponse(t, ok) ==
  /\ tasks[t].kind = "fetchProductChip" /\ tasks[t].pc = "search"
  /\ LET data == tasks[t].data
     IN /\ productList' = IF ok THEN withQty(ServerProducts(data[1].product_ids))
                                ELSE productList
        /\ selectedCategory' = data[1]
        /\ productsOfSelectedCategory' = data
  /\ tasks' = SetTask(t, DoneTask("fetchProductChip"))
  /\ UNCHANGED <<foodCategories, session, mounted, budget, stock, orders, users, calls, page>>

(* ---------------- initial load ---------------- *)
Mount ==
  /\ ~mounted
  /\ mounted' = TRUE
  /\ tasks' = tasks \o fetchProducts(0) \o fetchCategories \o fetchProductChip("")
  /\ UNCHANGED <<productList, productsOfSelectedCategory, foodCategories,
                 selectedCategory, session, budget, stock, orders,
                 users, calls, page>>

(* ---------------- order submitter ---------------- *)
\* the stock is lowered by one whatever the ordered quantity
updateProduct_byOne(item) ==
  [_id |-> item._id, availableQuantity |-> item.availableQuantity - 1]

\* the quantity is read from the catalog when the PATCH is built, not from
\* the entry the order was placed with
updateProduct_currentEntry(item) ==
  [_id |-> item._id,
   availableQuantity |->
     item.availableQuantity -
       IF \E k \in DOMAIN productList : productList[k]._id = item._id
       THEN productList[CHOOSE k \in DOMAIN productList :
                          productList[k]._id = item._id].quantity
       ELSE item.quantity]

\* the PATCH /products/update/<id> request updateProduct(item) sends
updateProduct(item) ==
  [_id |-> item._id, availableQuantity |-> item.availableQuantity - item.quantity]

\* the price is the unit price, the quantity is forgotten
orderPayload_unitPrice(item, bookedById) ==
  [bookedById |-> bookedById, productId |-> item._id,
   quantity |-> item.quantity, price |-> item.discountedPrice,
   paymentMethod |-> "Cash"]

\* the payload handlePlaceOrder builds for POST /orders
orderPayload(item, bookedById) ==
  [bookedById |-> bookedById, productId |-> item._id,
   quantity |-> item.quantity,
   price |-> item.quantity * item.discountedPrice,
   paymentMethod |-> "Cash"]

\* the order attempts that have not finished
InFlightOrders ==
  {t \in DOMAIN tasks : tasks[t].kind = "handlePlaceOrder" /\ tasks[t].pc # "done"}

NewOrderTask(item) ==
  [kind |-> "handlePlaceOrder", pc |-> "post", item |-> item,
   payload |-> orderPayload(item, session._id),
   postOk |-> "none", patches |-> <<>>, patchOk |-> "none",
   refreshCalled |-> FALSE, refresh |-> 0,
   error |-> NoError, toast |-> "none", concurrent |-> InFlightOrders]

\* the button is dead while another order is being submitted
handlePlaceOrder_exclusive(i) ==
  /\ i \in DOMAIN productList
  /\ productList[i].availableQuantity >= 1
  /\ InFlightOrders = {}
  /\ budget.orders > 0
  /\ budget' = [budget EXCEPT !.orders = @ - 1]
  /\ tasks' = Append(tasks, NewOrderTask(productList[i]))
  /\ UNCHANGED <<productList, productsOfSelectedCategory, foodCategories,
                 selectedCategory, session, mounted, stock, orders,
                 users, calls, page>>

\* the order needs a session with a user id and preferences, as the fetch does
handlePlaceOrder_sessionGuard(i) ==
  /\ i \in DOMAIN productList
  /\ productList[i].availableQuantity >= 1
  /\ ~(Len(session.userPreferences) = 0 \/ session._id = "none")
  /\ budget.orders > 0
  /\ budget' = [budget EXCEPT !.orders = @ - 1]
  /\ tasks' = Append(tasks, NewOrderTask(productList[i]))
  /\ UNCHANGED <<productList, productsOfSelectedCategory, foodCategories,
                 selectedCategory, session, mounted, stock, orders,
                 users, calls, page>>

\* the button is never disabled
handlePlaceOrder_noGuard(i) ==
  /\ i \in DOMAIN productList
  /\ budget.orders > 0
  /\ budget' = [budget EXCEPT !.orders = @ - 1]
  /\ tasks' = Append(tasks, NewOrderTask(productList[i]))
  /\ UNCHANGED <<productList, productsOfSelectedCategory, foodCategories,
                 selectedCategory, session, mounted, stock, orders,
                 users, calls, page>>

\* a click on Place Order of entry i: the payload is built and POST /orders sent
handlePlaceOrder(i) ==
  /\ i \in DOMAIN productList
  /\ productList[i].availableQuantity >= 1
  /\ budget.orders > 0
  /\ budget' = [budget EXCEPT !.orders = @ - 1]
  /\ tasks' = Append(tasks, NewOrderTask(productList[i]))
  /\ UNCHANGED <<productList, productsOfSelectedCategory, foodCategories,
                 selectedCategory, session, mounted, stock, orders,
                 users, calls, page>>

\* a failed POST is not caught before the stock update
afterPost_updateAnyway(tk, ok) ==
  [tk EXCEPT !.pc = "patch", !.postOk = IF ok THEN "ok" ELSE "fail",
             !.patches = Append(@, updateProduct(tk.item))]

\* a failed POST is sent again
afterPost_retry(tk, ok) ==
  IF ok THEN [tk EXCEPT !.pc = "patch", !.postOk = "ok",
                        !.patches = Append(@, updateProduct(tk.item))]
        ELSE [tk EXCEPT !.pc = "post", !.postOk = "fail"]

\* the try block of handlePlaceOrder once POST /orders has resolved: on success
\* updateProduct(item) sends its PATCH, on failure the catch block ends the handler
afterPost(tk, ok) ==
  IF ok THEN [tk EXCEPT !.pc = "patch", !.postOk = "ok",
                        !.patches = Append(@, updateProduct(tk.item))]
        ELSE [tk EXCEPT !.pc = "done", !.postOk = "fail"]

\* the message of the error is shown even when it is missing
errorMessage_noFallback(error) == error.message

\* error?.response?.data?.message ?? "Failed to place order"
errorMessage(error) ==
  IF error.response /\ error.message # "none"
  THEN error.message ELSE "Failed to place order"

\* data.message ?? "Order placed!"
successMessage(data) ==
  IF data.message # "none" THEN data.message ELSE "Order placed!"

\* POST /orders resolves: with a reply, or with an error that is caught
PlaceOrderResponse(t, ok) ==
  /\ tasks[t].kind = "handlePlaceOrder" /\ tasks[t].pc = "post"
  /\ orders' = IF ok THEN ServerPostOrder(tasks[t].payload) ELSE orders
  /\ \E error \in IF ok THEN {NoError} ELSE OrderErrors :
       tasks' = SetTask(t, [afterPost(tasks[t], ok) EXCEPT
                              !.error = error,
                              !.toast = IF ok THEN successMessage(OrderReply)
                                              ELSE errorMessage(error)])
  /\ UNCHANGED <<productList, productsOfSelectedCategory, foodCategories,
                 selectedCategory, session, mounted, budget, stock,
                 users, calls, page>>

\* updateProduct does not catch: a failed PATCH skips the refresh
afterUpdate_noCatch(tk, ok, self, next) ==
  LET started == IF ok THEN fetchProducts(self) ELSE <<>>
  IN << [tk EXCEPT !.pc = "done",
                   !.patchOk = IF ok THEN "ok" ELSE "fail",
                   !.refreshCalled = ok,
                   !.refresh = IF started = <<>> THEN 0 ELSE next] >> \o started

\* a failed PATCH is sent again
afterUpdate_retry(tk, ok, self, next) ==
  LET started == fetchProducts(self)
  IN IF ok
     THEN << [tk EXCEPT !.pc = "done", !.patchOk = "ok", !.refreshCalled = TRUE,
                        !.refresh = IF started = <<>> THEN 0 ELSE next] >> \o started
     ELSE << [tk EXCEPT !.patches = Append(@, updateProduct(tk.item))] >>

\* the rest of handlePlaceOrder once the PATCH has resolved: updateProduct
\* catches its own failure, so fetchProducts() is called either way. The result
\* is the handler's final record followed by the tasks the refresh starts.
afterUpdate(tk, ok, self, next) ==
  LET started == fetchProducts(self)
  IN << [tk EXCEPT !.pc = "done",
                   !.patchOk = IF ok THEN "ok" ELSE "fail",
                   !.refreshCalled = TRUE,
                   !.refresh = IF started = <<>> THEN 0 ELSE next] >> \o started

\* PATCH /products/update/<id> resolves
UpdateProductResponse(t, ok) ==
  /\ tasks[t].kind = "handlePlaceOrder" /\ tasks[t].pc = "patch"
  /\ LET req == tasks[t].patches[Len(tasks[t].patches)]
         res == afterUpdate(tasks[t], ok, t, Len(tasks) + 1)
     IN /\ stock' = IF ok THEN ServerPatchProduct(req) ELSE stock
        /\ tasks' = SetTask(t, Head(res)) \o Tail(res)
  /\ UNCHANGED <<productList, productsOfSelectedCategory, foodCategories,
                 selectedCategory, session, mounted, budget, orders,
                 users, calls, page>>

(* ---------------- category clicks ---------------- *)
\* a click on a chip or on a suggested category
handleCategoryClick(category) ==
  /\ budget.clicks > 0
  /\ budget' = [budget EXCEPT !.clicks = @ - 1]
  /\ LET started == fetchProductsByProductIds(category.product_ids)
     IN /\ tasks' = tasks \o started
        /\ productList' = IF started = <<>> THEN <<>> ELSE productList
  /\ selectedCategory' = category
  /\ UNCHANGED <<productsOfSelectedCategory, foodCategories, session, mounted,
                 stock, orders, users, calls, page>>

\* a click on a category of the sidebar
handleSidebarCategoryClick(category) ==
  /\ budget.clicks > 0
  /\ budget' = [budget EXCEPT !.clicks = @ - 1]
  /\ tasks' = tasks \o fetchProductChip(category._id)
  /\ UNCHANGED <<productList, productsOfSelectedCategory, foodCategories,
                 selectedCategory, session, mounted, stock, orders,
                 users, calls, page>>

(* ---------------- local cart state ---------------- *)
\* decrement with the floor off by one: quantity may reach 0
decrementEntry_floor0(p, clicked) ==
  IF p._id = clicked._id /\ p.quantity > 0
  THEN [p EXCEPT !.quantity = @ - 1] ELSE p

decrementEntry(p, clicked) ==
  IF p._id = clicked._id /\ p.quantity > 1
  THEN [p EXCEPT !.quantity = @ - 1] ELSE p

\* increment with the cap off by one: quantity may pass availableQuantity
incrementEntry_capPlus1(p, clicked) ==
  IF p._id = clicked._id /\ p.quantity <= p.availableQuantity
  THEN [p EXCEPT !.quantity = @ + 1] ELSE p

\* increment that raises by the whole remaining stock instead of by one
incrementEntry_jump(p, clicked) ==
  IF p._id = clicked._id /\ p.quantity < p.availableQuantity
  THEN [p EXCEPT !.quantity = p.availableQuantity] ELSE p

\* increment that forgets to match the identifier: every entry is raised
incrementEntry_noMatch(p, clicked) ==
  IF p.quantity < p.availableQuantity
  THEN [p EXCEPT !.quantity = @ + 1] ELSE p

incrementEntry(p, clicked) ==
  IF p._id = clicked._id /\ p.quantity < p.availableQuantity
  THEN [p EXCEPT !.quantity = @ + 1] ELSE p

handleDecrement(i) ==
  /\ i \in DOMAIN productList
  /\ productList' = [j \in DOMAIN productList |->
                       decrementEntry(productList[j], productList[i])]
  /\ UNCHANGED <<productsOfSelectedCategory, foodCategories, selectedCategory,
                 session, mounted, tasks, budget, stock, orders,
                 users, calls, page>>

handleIncrement(i) ==
  /\ i \in DOMAIN productList
  /\ productList' = [j \in DOMAIN productList |->
                       incrementEntry(productList[j], productList[i])]
  /\ UNCHANGED <<productsOfSelectedCategory, foodCategories, selectedCategory,
                 session, mounted, tasks, budget, stock, orders,
                 users, calls, page>>

(* ---------------- the specification ---------------- *)

(* ---------------- the user router of the server ---------------- *)
\* the requests the server handles in one run
MaxCalls == 2

Emails == {"a@x", "b@x"}
Passwords == {"pw1", "pw2"}

\* a field the request body lacks
Missing == ""

\* bcrypt.hash(password, saltRounds): a string that is not the password
hash(password) ==
  CASE password = "pw1" -> "$2b$10$h1"
    [] password = "pw2" -> "$2b$10$h2"
    [] OTHER            -> "$2b$10$h0"

\* bcrypt.compare(password, hashed)
compare(password, hashed) == hashed = hash(password)

\* user.userPreferences of a document: the field may be absent
NoPreferences == [set |-> FALSE, list |-> <<>>]

\* the collection before the run: one registered user
InitUsers ==
  << [_id |-> "u1", name |-> "Al", email |-> "a@x", role |-> "user",
      password |-> hash("pw1"),
      userPreferences |-> [set |-> TRUE, list |-> <<"pizza", "sushi">>]] >>

\* the _id the store gives the next document
NewId == CASE Len(users) = 1 -> "u2" [] Len(users) = 2 -> "u3" [] OTHER -> "u4"

LoginBodies ==
  [email : Emails \cup {Missing}, password : Passwords \cup {Missing}]

RegisterBodies ==
  [name : {"Bo"}, email : Emails, password : {"pw2"}, role : {"user"}]

\* User.findOne({ email }): the position of the first match, 0 for null
findOne(email) ==
  IF \E k \in DOMAIN users : users[k].email = email
  THEN CHOOSE k \in DOMAIN users :
         /\ users[k].email = email
         /\ \A j \in DOMAIN users : users[j].email = email => k <= j
  ELSE 0

\* jwt.sign({ userId, email, role }, JWT_SECRET, { expiresIn: "7d" })
sign(user) ==
  [userId |-> user._id, email |-> user.email, role |-> user.role,
   signed |-> TRUE, expiresIn |-> "7d"]

\* the whole stored document is sent
userResponse_wholeDocument(user) ==
  [user EXCEPT !.userPreferences =
                  IF user.userPreferences.set THEN user.userPreferences.list
                                              ELSE <<>>]

\* the user object of the login response
userResponse(user) ==
  [_id |-> user._id, name |-> user.name, email |-> user.email,
   role |-> user.role,
   userPreferences |-> IF user.userPreferences.set
                       THEN user.userPreferences.list ELSE <<>>]

Reply(status, message) == [status |-> status, message |-> message]

Pending == [status |-> 0, message |-> "pending"]

\* no document: User.findOne has not answered, or answered null
NoUser ==
  [_id |-> "null", name |-> "null", email |-> "null", role |-> "null",
   password |-> "null", userPreferences |-> NoPreferences]

\* POST /login arrives: the input is validated, then User.findOne is awaited
loginRequest(body) ==
  /\ Len(calls) < MaxCalls
  /\ calls' = Append(calls,
       IF body.email = Missing \/ body.password = Missing
       THEN [kind |-> "login", pc |-> "done", body |-> body, user |-> 0,
             doc |-> NoUser,
             res |-> Reply(400, "Email and password are required")]
       ELSE [kind |-> "login", pc |-> "findOne", body |-> body, user |-> 0,
             doc |-> NoUser, res |-> Pending])
  /\ UNCHANGED <<productList, productsOfSelectedCategory, foodCategories,
                 selectedCategory, session, mounted, tasks, budget, stock,
                 orders, users, page>>

\* an unknown e-mail gets an answer of its own
LoginFindOneResponse_userNotFound(c, ok) ==
  /\ calls[c].kind = "login" /\ calls[c].pc = "findOne"
  /\ LET k == findOne(calls[c].body.email)
     IN calls' = [calls EXCEPT ![c] =
          IF ~ok THEN [@ EXCEPT !.pc = "done",
                                !.res = Reply(500, "Login failed. Please try again.")]
          ELSE IF k = 0
          THEN [@ EXCEPT !.pc = "done", !.res = Reply(404, "User not found")]
          ELSE [@ EXCEPT !.pc = "compare", !.user = k, !.doc = users[k]]]
  /\ UNCHANGED <<productList, productsOfSelectedCategory, foodCategories,
                 selectedCategory, session, mounted, tasks, budget, stock,
                 orders, users, page>>

\* User.findOne resolves (or throws: the catch block answers 500)
LoginFindOneResponse(c, ok) ==
  /\ calls[c].kind = "login" /\ calls[c].pc = "findOne"
  /\ LET k == findOne(calls[c].body.email)
     IN calls' = [calls EXCEPT ![c] =
          IF ~ok THEN [@ EXCEPT !.pc = "done",
                                !.res = Reply(500, "Login failed. Please try again.")]
          ELSE IF k = 0
          THEN [@ EXCEPT !.pc = "done",
                         !.res = Reply(401, "Invalid email or password")]
          ELSE [@ EXCEPT !.pc = "compare", !.user = k, !.doc = users[k]]]
  /\ UNCHANGED <<productList, productsOfSelectedCategory, foodCategories,
                 selectedCategory, session, mounted, tasks, budget, stock,
                 orders, users, page>>

\* bcrypt.compare resolves: 401, or the token is signed and 200 sent
LoginCompareResponse(c) ==
  /\ calls[c].kind = "login" /\ calls[c].pc = "compare"
  /\ LET user == calls[c].doc
     IN calls' = [calls EXCEPT ![c] =
          IF ~compare(calls[c].body.password, user.password)
          THEN [@ EXCEPT !.pc = "done",
                         !.res = Reply(401, "Invalid email or password")]
          ELSE [@ EXCEPT !.pc = "done",
                         !.res = [status |-> 200,
                                  message |-> "Logged in successfully",
                                  user |-> userResponse(user),
                                  isLoggedIn |-> TRUE,
                                  token |-> sign(user)]]]
  /\ UNCHANGED <<productList, productsOfSelectedCategory, foodCategories,
                 selectedCategory, session, mounted, tasks, budget, stock,
                 orders, users, page>>

\* POST /register arrives: User.findOne is awaited
registerRequest(body) ==
  /\ Len(calls) < MaxCalls
  /\ calls' = Append(calls, [kind |-> "register", pc |-> "findOne",
                             body |-> body, user |-> 0, res |-> Pending])
  /\ UNCHANGED <<productList, productsOfSelectedCategory, foodCategories,
                 selectedCategory, session, mounted, tasks, budget, stock,
                 orders, users, page>>

\* User.findOne resolves: 400 for a taken e-mail, else the password is hashed
\* and User.create awaited
RegisterFindOneResponse(c, ok) ==
  /\ calls[c].kind = "register" /\ calls[c].pc = "findOne"
  /\ calls' = [calls EXCEPT ![c] =
       IF ~ok THEN [@ EXCEPT !.pc = "done",
                             !.res = Reply(500, "Registration failed. Please try again.")]
       ELSE IF findOne(calls[c].body.email) # 0
       THEN [@ EXCEPT !.pc = "done", !.res = Reply(400, "Email already taken")]
       ELSE [@ EXCEPT !.pc = "create"]]
  /\ UNCHANGED <<productList, productsOfSelectedCategory, foodCategories,
                 selectedCategory, session, mounted, tasks, budget, stock,
                 orders, users, page>>

\* User.create({ ...req.body, password: hashedPassword }) resolves
RegisterCreateResponse(c, ok) ==
  /\ calls[c].kind = "register" /\ calls[c].pc = "create"
  /\ IF ok
     THEN /\ users' = Append(users,
                 [_id |-> NewId, name |-> calls[c].body.name,
                  email |-> calls[c].body.email, role |-> calls[c].body.role,
                  password |-> hash(calls[c].body.password),
                  userPreferences |-> NoPreferences])
          /\ calls' = [calls EXCEPT ![c] =
                 [@ EXCEPT !.pc = "done",
                           !.res = [status |-> 201,
                                    message |-> "User registered successfully",
                                    userId |-> NewId]]]
     ELSE /\ users' = users
          /\ calls' = [calls EXCEPT ![c] =
                 [@ EXCEPT !.pc = "done",
                           !.res = Reply(500, "Registration failed. Please try again.")]]
  /\ UNCHANGED <<productList, productsOfSelectedCategory, foodCategories,
                 selectedCategory, session, mounted, tasks, budget, stock,
                 orders, page>>

(* ---------------- PATCH /users/:id/add-preferences ---------------- *)
\* the :id of the request: a stored user, an unknown one, and a string that
\* is no ObjectId (what the client sends without a user id)
UserIds == {"u1", "u9", "none"}

\* the selections of the preferences page
Selections == { <<>>, <<"sushi">>, <<"sushi", "pizza">> }

\* req.body.userPreferences: an array, absent, or something that is no array
PreferenceBodies ==
  {[kind |-> "array", list |-> sel] : sel \in Selections}
    \cup {[kind |-> "missing", list |-> <<>>], [kind |-> "string", list |-> <<>>]}

\* User.findById(id): the position of the document, 0 for null
findById(id) ==
  IF \E k \in DOMAIN users : users[k]._id = id
  THEN CHOOSE k \in DOMAIN users : users[k]._id = id
  ELSE 0

\* the handler up to its first await: the body is validated
NewAddPreferencesCall(id, body) ==
  IF body.kind # "array"
  THEN [kind |-> "addPreferences", pc |-> "done", body |-> body, id |-> id,
        user |-> 0, res |-> Reply(400, "Invalid preferences format")]
  ELSE [kind |-> "addPreferences", pc |-> "findById", body |-> body, id |-> id,
        user |-> 0, res |-> Pending]

\* a PATCH /users/<id>/add-preferences of some client arrives
addPreferencesRequest(id, body) ==
  /\ Len(calls) < MaxCalls
  /\ calls' = Append(calls, NewAddPreferencesCall(id, body))
  /\ UNCHANGED <<productList, productsOfSelectedCategory, foodCategories,
                 selectedCategory, session, mounted, tasks, budget, stock,
                 orders, users, page>>

\* User.findById resolves: it throws for an id that is no ObjectId (500),
\* null gives 404, else the document's preferences are set and save awaited
AddPreferencesFindByIdResponse(c, ok) ==
  /\ calls[c].kind = "addPreferences" /\ calls[c].pc = "findById"
  /\ LET k == findById(calls[c].id)
     IN calls' = [calls EXCEPT ![c] =
          IF ~ok \/ calls[c].id = "none"
          THEN [@ EXCEPT !.pc = "done",
                         !.res = Reply(500, "Failed to update preferences")]
          ELSE IF k = 0
          THEN [@ EXCEPT !.pc = "done", !.res = Reply(404, "User not found")]
          ELSE [@ EXCEPT !.pc = "save", !.user = k]]
  /\ UNCHANGED <<productList, productsOfSelectedCategory, foodCategories,
                 selectedCategory, session, mounted, tasks, budget, stock,
                 orders, users, page>>

\* the sent list is added to the stored one
savedPreferences_append(stored, sent) ==
  [set |-> TRUE, list |-> stored.list \o sent]

\* user.userPreferences = userPreferences
savedPreferences(stored, sent) == [set |-> TRUE, list |-> sent]

\* user.save() resolves
AddPreferencesSaveResponse(c, ok) ==
  /\ calls[c].kind = "addPreferences" /\ calls[c].pc = "save"
  /\ LET k    == calls[c].user
         list == savedPreferences(users[k].userPreferences, calls[c].body.list).list
     IN IF ok
        THEN /\ users' = [users EXCEPT ![k].userPreferences =
                            savedPreferences(@, calls[c].body.list)]
             /\ calls' = [calls EXCEPT ![c] =
                  [@ EXCEPT !.pc = "done",
                            !.res = [status |-> 200,
                                     message |-> "User preferences updated successfully",
                                     userPreferences |-> list]]]
        ELSE /\ users' = users
             /\ calls' = [calls EXCEPT ![c] =
                  [@ EXCEPT !.pc = "done",
                            !.res = Reply(500, "Failed to update preferences")]]
  /\ UNCHANGED <<productList, productsOfSelectedCategory, foodCategories,
                 selectedCategory, session, mounted, tasks, budget, stock,
                 orders, page>>

(* ---------------- the preferences page ---------------- *)
\* the reducer updateUserPreferences of the user slice
updateUserPreferences(list) == [session EXCEPT !.userPreferences = list]

\* the page once its effects have run: the selection is the store's list
PageInit ==
  page = [favouriteProducts |-> session.userPreferences, isSubmitting |-> FALSE,
          pc |-> "idle", sent |-> <<>>, call |-> 0, toast |-> "none"]

\* the user changes the selection in the MultiSelect
setFavouriteProducts(sel) ==
  /\ page.pc # "left"
  /\ page.favouriteProducts # sel
  /\ page' = [page EXCEPT !.favouriteProducts = sel]
  /\ UNCHANGED <<productList, productsOfSelectedCategory, foodCategories,
                 selectedCategory, session, mounted, tasks, budget, stock,
                 orders, users, calls>>

\* handleNext up to its await; the button is disabled while isSubmitting (and
\* for an empty selection, which the handler tests itself)
handleNext ==
  /\ page.pc # "left" /\ ~page.isSubmitting
  /\ IF Len(page.favouriteProducts) = 0
     THEN /\ page' = [page EXCEPT !.toast = "Please select at least one favorite food."]
          /\ calls' = calls
     ELSE /\ Len(calls) < MaxCalls
          /\ calls' = Append(calls,
                NewAddPreferencesCall(session._id,
                   [kind |-> "array", list |-> page.favouriteProducts]))
          /\ page' = [page EXCEPT !.isSubmitting = TRUE, !.pc = "patch",
                                  !.sent = page.favouriteProducts,
                                  !.call = Len(calls) + 1]
  /\ UNCHANGED <<productList, productsOfSelectedCategory, foodCategories,
                 selectedCategory, session, mounted, tasks, budget, stock,
                 orders, users>>

\* axios.patch resolves when the status is 2xx and the answer arrives
patchSucceeded(ok) == ok /\ calls[page.call].res.status = 200

\* the store is updated whether or not the request succeeded
HandleNextResponse_dispatchAlways(ok) ==
  /\ page.pc = "patch" /\ calls[page.call].pc = "done"
  /\ session' = [session EXCEPT !.userPreferences = page.sent]
  /\ page' = [page EXCEPT !.isSubmitting = FALSE,
                          !.pc = IF patchSucceeded(ok) THEN "left" ELSE "idle",
                          !.favouriteProducts = page.sent,
                          !.toast = IF patchSucceeded(ok)
                                    THEN "Preferences saved successfully!"
                                    ELSE "Failed to save preferences. Please try again."]
  /\ UNCHANGED <<productList, productsOfSelectedCategory, foodCategories,
                 selectedCategory, mounted, tasks, budget, stock,
                 orders, users, calls>>

\* the awaited PATCH settles: try (dispatch, toast, router.push) or catch,
\* then finally
HandleNextResponse(ok) ==
  /\ page.pc = "patch" /\ calls[page.call].pc = "done"
  /\ IF patchSucceeded(ok)
     THEN /\ session' = updateUserPreferences(page.sent)
          /\ page' = [page EXCEPT !.isSubmitting = FALSE, !.pc = "left",
                                  !.favouriteProducts = page.sent,
                                  !.toast = "Preferences saved successfully!"]
     ELSE /\ session' = session
          /\ page' = [page EXCEPT !.isSubmitting = FALSE, !.pc = "idle",
                                  !.toast = "Failed to save preferences. Please try again."]
  /\ UNCHANGED <<productList, productsOfSelectedCategory, foodCategories,
                 selectedCategory, mounted, tasks, budget, stock,
                 orders, users, calls>>

Init ==
  /\ productList = <<>>
  /\ productsOfSelectedCategory = <<>>
  /\ foodCategories = <<>>
  /\ selectedCategory = NoCategory
  /\ session \in Sessions
  /\ mounted = FALSE
  /\ tasks = <<>>
  /\ budget = [orders |-> MaxOrders, clicks |-> MaxClicks]
  /\ stock = InitStock
  /\ orders = <<>>
  /\ users = InitUsers
  /\ calls = <<>>
  /\ PageInit

Rendered(cats) == {cats[i] : i \in DOMAIN cats}

Next ==
  \/ Mount
  \/ \E t \in DOMAIN tasks, ok \in BOOLEAN : FetchProductsResponse(t, ok)
  \/ \E t \in DOMAIN tasks, ok \in BOOLEAN : FetchCategoriesResponse(t, ok)
  \/ \E t \in DOMAIN tasks, ok \in BOOLEAN : FetchProductsByProductIdsResponse(t, ok)
  \/ \E t \in DOMAIN tasks, ok \in BOOLEAN, data \in ChipResponses :
       FetchProductChipResponse(t, ok, data)
  \/ \E t \in DOMAIN tasks, ok \in BOOLEAN : FetchProductChipSearchResponse(t, ok)
  \/ \E i \in DOMAIN productList : handlePlaceOrder(i)
  \/ \E t \in DOMAIN tasks, ok \in BOOLEAN : PlaceOrderResponse(t, ok)
  \/ \E t \in DOMAIN tasks, ok \in BOOLEAN : UpdateProductResponse(t, ok)
  \/ \E c \in Rendered(productsOfSelectedCategory) \cup Rendered(foodCategories) :
       handleCategoryClick(c)
  \/ \E c \in Rendered(foodCategories) : handleSidebarCategoryClick(c)
  \/ \E i \in DOMAIN productList : handleDecrement(i)
  \/ \E i \in DOMAIN productList : handleIncrement(i)

Spec == Init /\ [][Next]_vars

(* ---------------- two orders on a loaded map ---------------- *)
\* the product documents of the first load
InitProducts(ids) ==
  [i \in 1..Len(ids) |->
     [_id |-> ids[i], availableQuantity |-> InitStock[ids[i]],
      discountedPrice |-> discountedPrice(ids[i])]]

\* the map once the initial load has completed: both preference terms
\* answered, the categories loaded, no chip returned; the user places up to
\* MaxOrders + 1 orders and selects no category
LoadedTasks ==
  << [kind |-> "fetchProducts", pc |-> "done", origin |-> 0,
      prefs |-> <<"pizza", "sushi">>, idx |-> 2, allFetched |-> <<>>,
      outcomes |->
        << [ok |-> TRUE, data |-> InitProducts(TermProducts("pizza"))],
           [ok |-> TRUE, data |-> InitProducts(TermProducts("sushi"))] >>],
     DoneTask("fetchCategories"), DoneTask("fetchProductChip") >>

LoadedView ==
  /\ session = [_id |-> "u1", userPreferences |-> <<"pizza", "sushi">>]
  /\ mounted = TRUE
  /\ stock = InitStock
  /\ orders = <<>>
  /\ productList = withQty(InitProducts(TermProducts("pizza")))
                     \o withQty(InitProducts(TermProducts("sushi")))
  /\ productsOfSelectedCategory = <<>>
  /\ foodCategories = AllCategories
  /\ selectedCategory = NoCategory
  /\ tasks = LoadedTasks
  /\ users = InitUsers
  /\ calls = <<>>
  /\ PageInit

LoadedInit ==
  /\ LoadedView
  /\ budget = [orders |-> MaxOrders + 1, clicks |-> 0]

OrdersNext ==
  \/ \E t \in DOMAIN tasks, ok \in BOOLEAN : FetchProductsResponse(t, ok)
  \/ \E i \in DOMAIN productList : handlePlaceOrder(i)
  \/ \E t \in DOMAIN tasks, ok \in BOOLEAN : PlaceOrderResponse(t, ok)
  \/ \E t \in DOMAIN tasks, ok \in BOOLEAN : UpdateProductResponse(t, ok)
  \/ \E i \in DOMAIN productList : handleDecrement(i)
  \/ \E i \in DOMAIN productList : handleIncrement(i)

SpecOrders == LoadedInit /\ [][OrdersNext]_vars

(* ---------------- category clicks on a loaded map ---------------- *)
\* the loaded map of a user who selects up to MaxClicks + 1 categories and
\* places no order
ClicksInit ==
  /\ LoadedView
  /\ budget = [orders |-> 0, clicks |-> MaxClicks + 1]

ClicksNext ==
  \/ \E c \in Rendered(productsOfSelectedCategory) \cup Rendered(foodCategories) :
       handleCategoryClick(c)
  \/ \E t \in DOMAIN tasks, ok \in BOOLEAN : FetchProductsByProductIdsResponse(t, ok)
  \/ \E i \in DOMAIN productList : handleDecrement(i)
  \/ \E i \in DOMAIN productList : handleIncrement(i)

SpecClicks == ClicksInit /\ [][ClicksNext]_vars

(* ---------------- orders in the view of a category ---------------- *)
\* the loaded map after the category Pizza was selected and its lookup
\* answered: the catalog shows the products of the selected category
SelectedInit ==
  /\ session = [_id |-> "u1", userPreferences |-> <<"pizza", "sushi">>]
  /\ mounted = TRUE
  /\ stock = InitStock
  /\ orders = <<>>
  /\ productList = withQty(InitProducts(Category("c1").product_ids))
  /\ productsOfSelectedCategory = <<>>
  /\ foodCategories = AllCategories
  /\ selectedCategory = Category("c1")
  /\ tasks = Append(LoadedTasks, DoneTask("fetchProductsByProductIds"))
  /\ budget = [orders |-> MaxOrders + 1, clicks |-> 0]
  /\ users = InitUsers
  /\ calls = <<>>
  /\ PageInit

SpecSelected == SelectedInit /\ [][OrdersNext]_vars

(* ---------------- every request is answered ---------------- *)
\* the handler invocations a run of the loaded map can have: the three of the
\* initial load, and an order and its refresh per click
MaxTasks == 3 + 2 * (MaxOrders + 1)

\* the request invocation t is suspended on resolves, with either outcome
RequestResolves(t) ==
  /\ t \in DOMAIN tasks
  /\ \E ok \in BOOLEAN :
       \/ FetchProductsResponse(t, ok)
       \/ PlaceOrderResponse(t, ok)
       \/ UpdateProductResponse(t, ok)

\* the loaded map where no request stays unanswered for ever
SpecOrdersLive ==
  /\ LoadedInit /\ [][OrdersNext]_vars
  /\ \A t \in 1..MaxTasks : WF_vars(RequestResolves(t))

(* ---------------- the user router alone ---------------- *)
AuthNext ==
  \/ \E body \in LoginBodies : loginRequest(body)
  \/ \E c \in DOMAIN calls, ok \in BOOLEAN : LoginFindOneResponse(c, ok)
  \/ \E c \in DOMAIN calls : LoginCompareResponse(c)
  \/ \E body \in RegisterBodies : registerRequest(body)
  \/ \E c \in DOMAIN calls, ok \in BOOLEAN : RegisterFindOneResponse(c, ok)
  \/ \E c \in DOMAIN calls, ok \in BOOLEAN : RegisterCreateResponse(c, ok)
  \/ \E id \in UserIds, body \in PreferenceBodies : addPreferencesRequest(id, body)
  \/ \E c \in DOMAIN calls, ok \in BOOLEAN : AddPreferencesFindByIdResponse(c, ok)
  \/ \E c \in DOMAIN calls, ok \in BOOLEAN : AddPreferencesSaveResponse(c, ok)

SpecAuth == Init /\ [][AuthNext]_vars

(* ---------------- saving preferences ---------------- *)
\* the preferences page of one client and the add-preferences handler of the
\* server, which other clients call too
PrefsNext ==
  \/ \E sel \in Selections : setFavouriteProducts(sel)
  \/ handleNext
  \/ \E ok \in BOOLEAN : HandleNextResponse(ok)
  \/ \E id \in UserIds, body \in PreferenceBodies : addPreferencesRequest(id, body)
  \/ \E c \in DOMAIN calls, ok \in BOOLEAN : AddPreferencesFindByIdResponse(c, ok)
  \/ \E c \in DOMAIN calls, ok \in BOOLEAN : AddPreferencesSaveResponse(c, ok)

SpecPrefs == Init /\ [][PrefsNext]_vars

(***************************************************************************)
(* Properties of the local cart state                                      *)
(***************************************************************************)
Entries == {productList[i] : i \in DOMAIN productList}

OrderTasks == {t \in DOMAIN tasks : tasks[t].kind = "handlePlaceOrder"}

Max(a, b) == IF a >= b THEN a ELSE b

\* C1 as stated: every catalog entry satisfies 1 <= quantity <= availableQuantity,
\* also for an availableQuantity of 0.
C1_QuantityWithinStock ==
  \A p \in Entries : 1 <= p.quantity /\ p.quantity <= p.availableQuantity

\* C1, amended: every catalog entry satisfies
\* 1 <= quantity <= max(1, availableQuantity); an entry whose availableQuantity
\* is 0 is shown with quantity 1.
C1_QuantityWithinStockOrOne ==
  \A p \in Entries : 1 <= p.quantity /\ p.quantity <= Max(1, p.availableQuantity)

\* the catalog shows a sold-out product (its quantity is 1) next to an entry
\* raised to its availableQuantity
C1_Witness ==
  /\ \E p \in Entries : p.availableQuantity = 0 /\ p.quantity = 1
  /\ \E p \in Entries : p.availableQuantity >= 2 /\ p.quantity = p.availableQuantity

\* C2: handleIncrement raises the quantity of the clicked entry by exactly 1
\* while it is below availableQuantity and leaves it alone otherwise;
\* handleDecrement lowers it by exactly 1 while it is above 1 and leaves it
\* alone otherwise.
C2_IncrementDecrementStep ==
  [][\A i \in DOMAIN productList :
       /\ handleIncrement(i) =>
            productList'[i].quantity =
              IF productList[i].quantity < productList[i].availableQuantity
              THEN productList[i].quantity + 1 ELSE productList[i].quantity
       /\ handleDecrement(i) =>
            productList'[i].quantity =
              IF productList[i].quantity > 1
              THEN productList[i].quantity - 1 ELSE productList[i].quantity]_vars

\* one entry was raised twice, to its cap of 3, while another sits at the floor
C2_Witness ==
  /\ \E p \in Entries : p.quantity = 3 /\ p.availableQuantity = 3
  /\ \E p \in Entries : p.quantity = 1 /\ p.availableQuantity >= 2

\* C3: no catalog entry ever has a zero or negative quantity.
C3_QuantityPositive == \A p \in Entries : p.quantity >= 1

\* after an order went through, the catalog shows a sold-out product at
\* quantity 1
C3_Witness ==
  /\ orders # <<>>
  /\ \E p \in Entries : p.quantity = 1 /\ p.availableQuantity = 0

\* C4 as stated: increment and decrement of entry i change nothing but the
\* quantity of entry i, and start no request.
C4_OnlyTargetEntry ==
  [][\A i \in DOMAIN productList :
       (handleIncrement(i) \/ handleDecrement(i)) =>
         /\ Len(productList') = Len(productList)
         /\ \A j \in DOMAIN productList :
              j # i => productList'[j] = productList[j]
         /\ productList'[i] = [productList[i] EXCEPT
                                 !.quantity = productList'[i].quantity]
         /\ tasks' = tasks]_vars

\* C4, amended: increment and decrement of entry i change nothing but the
\* quantity of the entries whose identifier equals that of entry i (all of them
\* when the identifier occurs more than once); entries with another identifier,
\* the length and order of the list and every other field are unchanged, and no
\* request is started.
C4_OnlyEntriesOfTargetId ==
  [][\A i \in DOMAIN productList :
       (handleIncrement(i) \/ handleDecrement(i)) =>
         /\ Len(productList') = Len(productList)
         /\ \A j \in DOMAIN productList :
              /\ productList[j]._id # productList[i]._id =>
                   productList'[j] = productList[j]
              /\ productList'[j] = [productList[j] EXCEPT
                                      !.quantity = productList'[j].quantity]
         /\ tasks' = tasks /\ stock' = stock /\ orders' = orders]_vars

\* a catalog concatenated from two terms holds the same product twice, both
\* entries raised, beside an untouched entry of another product
C4_Witness ==
  \E i, j, k \in DOMAIN productList :
    /\ i # j /\ productList[i]._id = productList[j]._id
    /\ productList[i].quantity >= 2 /\ productList[j].quantity >= 2
    /\ productList[k]._id # productList[i]._id /\ productList[k].quantity = 1

(***************************************************************************)
(* Properties of the catalog fetchers                                      *)
(***************************************************************************)
FetchTasks == {t \in DOMAIN tasks : tasks[t].kind = "fetchProducts"}

\* the catalog the outcomes of the terms call for: the data of the terms that
\* succeeded, in term order, every entry with quantity 1
ExpectedCatalog(outcomes) ==
  Concat([i \in 1..Len(outcomes) |->
            IF outcomes[i].ok
            THEN [k \in 1..Len(outcomes[i].data) |->
                    [_id |-> outcomes[i].data[k]._id,
                     availableQuantity |-> outcomes[i].data[k].availableQuantity,
                     discountedPrice |-> outcomes[i].data[k].discountedPrice,
                     quantity |-> 1]]
            ELSE <<>>])

\* C5: when fetchProducts finishes, every term of the preference list has been
\* requested and the catalog is exactly the concatenation, in term order, of
\* the results of the terms that succeeded, each entry with quantity 1.
C5_PartialSuccess ==
  [][\A t \in FetchTasks :
       (tasks[t].pc = "get" /\ tasks'[t].pc = "done") =>
         /\ Len(tasks'[t].outcomes) = Len(tasks[t].prefs)
         /\ productList' = ExpectedCatalog(tasks'[t].outcomes)]_vars

\* the first term succeeded with 2 items, the second failed, and the catalog
\* is exactly those 2 items
C5_Witness ==
  \E t \in FetchTasks :
    /\ tasks[t].pc = "done" /\ Len(tasks[t].outcomes) = 2
    /\ tasks[t].outcomes[1].ok /\ Len(tasks[t].outcomes[1].data) = 2
    /\ ~tasks[t].outcomes[2].ok
    /\ Len(productList) = 2
    /\ productList = ExpectedCatalog(tasks[t].outcomes)

\* C6 as stated: a request of a catalog fetcher that fails leaves productList,
\* foodCategories, productsOfSelectedCategory and selectedCategory as they
\* were, also when every term request of fetchProducts has failed. (Read in
\* the code's favour: a failed term after a successful one is not counted, and
\* for the product lookup nested in fetchProductChip only productList is.)
C6_FailureKeepsState ==
  [][\A t \in DOMAIN tasks :
       /\ ( \/ /\ FetchProductsResponse(t, FALSE)
               /\ \A k \in DOMAIN tasks'[t].outcomes : ~tasks'[t].outcomes[k].ok
            \/ FetchCategoriesResponse(t, FALSE)
            \/ FetchProductsByProductIdsResponse(t, FALSE)
            \/ \E data \in ChipResponses : FetchProductChipResponse(t, FALSE, data) )
          => UNCHANGED <<productList, foodCategories, productsOfSelectedCategory,
                         selectedCategory>>
       /\ FetchProductChipSearchResponse(t, FALSE) => UNCHANGED productList]_vars

(***************************************************************************)
(* Properties of the order submitter                                       *)
(***************************************************************************)
Recorded == {orders[k] : k \in DOMAIN orders}

RefreshOf(t) == {r \in FetchTasks : tasks[r].origin = t}

\* C7: when POST /orders fails, the attempt ends there: no PATCH is sent, no
\* refresh is started, and the failing step changes neither the catalog nor
\* the server's stock and orders.
C7_FailedOrderStopsThere ==
  /\ [](\A t \in OrderTasks :
          tasks[t].postOk = "fail" =>
            /\ tasks[t].pc = "done" /\ tasks[t].patches = <<>>
            /\ tasks[t].patchOk = "none"
            /\ ~tasks[t].refreshCalled /\ RefreshOf(t) = {})
  /\ [][\A t \in OrderTasks :
          (tasks[t].postOk = "none" /\ tasks'[t].postOk = "fail") =>
            /\ productList' = productList /\ stock' = stock /\ orders' = orders
            /\ Len(tasks') = Len(tasks)]_vars

\* an order for 2 pieces failed while the catalog was showing products
C7_Witness ==
  \E t \in OrderTasks :
    tasks[t].postOk = "fail" /\ tasks[t].item.quantity = 2 /\ productList # <<>>

\* C8: an attempt has sent no PATCH before its POST /orders succeeded, and from
\* then on exactly one: PATCH /products/update/<id of the ordered entry> with
\* availableQuantity = A - q of that entry.
C8_OnePatchAfterSuccess ==
  \A t \in OrderTasks :
    tasks[t].patches =
      IF tasks[t].postOk = "ok"
      THEN << [_id |-> tasks[t].payload.productId,
               availableQuantity |->
                 tasks[t].item.availableQuantity - tasks[t].payload.quantity] >>
      ELSE <<>>

\* an order of 2 out of 3 succeeded and its PATCH carried availableQuantity 1
C8_Witness ==
  \E t \in OrderTasks :
    /\ tasks[t].postOk = "ok" /\ tasks[t].item.quantity = 2
    /\ tasks[t].item.availableQuantity = 3
    /\ tasks[t].patches[1].availableQuantity = 1

\* C9: fetchProducts is called by an attempt exactly when its PATCH has
\* resolved, as a success or as a failure, which happens only after its POST
\* succeeded; with a session that has a user id and preferences the call
\* starts a fetch of the catalog.
C9_RefreshAfterUpdate ==
  \A t \in OrderTasks :
    /\ tasks[t].refreshCalled <=> tasks[t].patchOk # "none"
    /\ tasks[t].patchOk # "none" => tasks[t].postOk = "ok"
    /\ RefreshOf(t) # {} => tasks[t].refreshCalled
    /\ (tasks[t].refreshCalled /\ session._id # "none"
          /\ session.userPreferences # <<>>) =>
         /\ RefreshOf(t) = {tasks[t].refresh}
         /\ tasks[t].refresh > t

\* the PATCH of an attempt failed and the refresh it started has completed
C9_Witness ==
  \E t \in OrderTasks :
    /\ tasks[t].patchOk = "fail"
    /\ tasks[t].refresh \in FetchTasks
    /\ tasks[tasks[t].refresh].pc = "done"

\* C10: when the POST succeeded and the PATCH failed, the order stays
\* recorded, the failing step leaves the server's stock as it was, the attempt
\* sends no second PATCH, every product document a refresh receives carries
\* the server's current stock, and as long as no PATCH has succeeded the
\* catalog and the server both show the stock from before the order.
C10_InconsistencyWindow ==
  /\ [](\A t \in OrderTasks :
          /\ Len(tasks[t].patches) <= 1
          /\ tasks[t].postOk = "ok" => tasks[t].payload \in Recorded
          /\ (\A u \in OrderTasks : tasks[u].patchOk # "ok") =>
               /\ stock = InitStock
               /\ \A p \in Entries : p.availableQuantity = InitStock[p._id])
  /\ [][/\ \A t \in OrderTasks :
             (tasks[t].patchOk = "none" /\ tasks'[t].patchOk = "fail") =>
               stock' = stock /\ orders' = orders
        /\ \A r \in FetchTasks :
             Len(tasks'[r].outcomes) > Len(tasks[r].outcomes) =>
               LET got == tasks'[r].outcomes[Len(tasks'[r].outcomes)].data
               IN \A k \in DOMAIN got :
                    got[k].availableQuantity = stock[got[k]._id]]_vars

\* an order of 2 is recorded, its PATCH failed, and the refreshed catalog and
\* the server still show the stock of 3
C10_Witness ==
  \E t \in OrderTasks :
    /\ tasks[t].patchOk = "fail" /\ tasks[t].payload \in Recorded
    /\ tasks[t].item.quantity = 2
    /\ tasks[t].refresh \in FetchTasks /\ tasks[tasks[t].refresh].pc = "done"
    /\ stock[tasks[t].item._id] = 3
    /\ \E p \in Entries : p._id = tasks[t].item._id /\ p.availableQuantity = 3

(***************************************************************************)
(* Properties of concurrent orders                                         *)
(***************************************************************************)
\* the state LoadedInit starts from, but for the budget
LoadedMap ==
  /\ session = [_id |-> "u1", userPreferences |-> <<"pizza", "sushi">>]
  /\ mounted /\ stock = InitStock /\ orders = <<>>
  /\ productList = withQty(InitProducts(TermProducts("pizza")))
                     \o withQty(InitProducts(TermProducts("sushi")))
  /\ productsOfSelectedCategory = <<>> /\ foodCategories = AllCategories
  /\ selectedCategory = NoCategory
  /\ Len(tasks) = 3 /\ \A t \in DOMAIN tasks : tasks[t].pc = "done"
  /\ tasks[1].kind = "fetchProducts"
  /\ \A k \in DOMAIN tasks[1].outcomes : tasks[1].outcomes[k].ok

PatchedOk(p) ==
  {t \in OrderTasks : tasks[t].patchOk = "ok" /\ tasks[t].item._id = p}

\* C11: a Place Order click is never blocked by an order in flight (the button
\* works whenever the entry shows stock), every attempt sends the PATCH it
\* computed from the entry it captured at the click, and the server's stock of
\* a product is always its initial stock or the value of one single PATCH:
\* two orders are never both subtracted.
C11_OrdersIndependent ==
  /\ \A i \in DOMAIN productList :
       (productList[i].availableQuantity >= 1 /\ budget.orders > 0) =>
         ENABLED handlePlaceOrder(i)
  /\ \A t \in OrderTasks :
       tasks[t].postOk = "ok" =>
         tasks[t].patches =
           << [_id |-> tasks[t].item._id,
               availableQuantity |->
                 tasks[t].item.availableQuantity - tasks[t].item.quantity] >>
  /\ \A p \in Products :
       \/ stock[p] = InitStock[p] /\ PatchedOk(p) = {}
       \/ \E t \in PatchedOk(p) : stock[p] = tasks[t].patches[1].availableQuantity

\* over-sell: a second order for the same product was placed while the first
\* was in flight, both are recorded and both PATCHes succeeded, the server's
\* stock shows only one of them subtracted, and together they exceed the stock
C11_Witness ==
  \E t, u \in OrderTasks :
    /\ t \in tasks[u].concurrent
    /\ tasks[t].item._id = tasks[u].item._id
    /\ tasks[t].item.availableQuantity = tasks[u].item.availableQuantity
    /\ tasks[t].payload \in Recorded /\ tasks[u].payload \in Recorded
    /\ tasks[t].patchOk = "ok" /\ tasks[u].patchOk = "ok"
    /\ stock[tasks[t].item._id] \in
         { tasks[t].item.availableQuantity - tasks[t].item.quantity,
           tasks[u].item.availableQuantity - tasks[u].item.quantity }
    /\ stock[tasks[t].item._id] #
         tasks[t].item.availableQuantity - tasks[t].item.quantity
           - tasks[u].item.quantity
    /\ tasks[t].item.quantity + tasks[u].item.quantity
         > tasks[t].item.availableQuantity

\* C12: the payload of every order request carries bookedById = the session's
\* user id, productId and quantity of the ordered entry, price = quantity *
\* discountedPrice of that entry and paymentMethod "Cash"; what the server
\* records is such a payload.
C12_OrderPayload ==
  /\ \A t \in OrderTasks :
       /\ tasks[t].payload.bookedById = session._id
       /\ tasks[t].payload.productId = tasks[t].item._id
       /\ tasks[t].payload.quantity = tasks[t].item.quantity
       /\ tasks[t].payload.price =
            tasks[t].item.quantity * tasks[t].item.discountedPrice
       /\ tasks[t].payload.paymentMethod = "Cash"
       /\ DOMAIN tasks[t].payload =
            {"bookedById", "productId", "quantity", "price", "paymentMethod"}
  /\ \A o \in Recorded : \E t \in OrderTasks : tasks[t].payload = o

\* quantity 3 at discountedPrice 100 was ordered for 300
C12_Witness ==
  \E o \in Recorded :
    o.quantity = 3 /\ o.price = 300 /\ discountedPrice(o.productId) = 100

\* C13: when the order request fails, the message shown is the message of the
\* server's response when there is one ("Out of stock"), and "Failed to place
\* order" when the response has no message or there is no response.
C13_OrderErrorMessage ==
  \A t \in OrderTasks :
    tasks[t].postOk = "fail" =>
      /\ (tasks[t].error.response /\ tasks[t].error.message = "Out of stock")
            => tasks[t].toast = "Out of stock"
      /\ tasks[t].error.message = "none"
            => tasks[t].toast = "Failed to place order"
      /\ ~tasks[t].error.response => tasks[t].toast = "Failed to place order"
      /\ tasks[t].error \in OrderErrors

\* one order failed with the server's "Out of stock", another without any
\* response
C13_Witness ==
  \E t, u \in OrderTasks :
    /\ tasks[t].postOk = "fail" /\ tasks[t].toast = "Out of stock"
    /\ tasks[u].postOk = "fail" /\ ~tasks[u].error.response
    /\ tasks[u].toast = "Failed to place order"

\* the requests in flight
InFlight == {t \in DOMAIN tasks : tasks[t].pc # "done"}

C15_ChipRetrieval ==
  [][ /\ \A t \in DOMAIN tasks, data \in ChipResponses :
           ( /\ FetchProductChipResponse(t, TRUE, data)
             /\ Len(data) > 0 /\ Len(data[1].product_ids) = 0 ) =>
               /\ selectedCategory' = data[1]
               /\ productsOfSelectedCategory' = data
               /\ productList' = <<>>
      /\ \A t \in DOMAIN tasks, ok \in BOOLEAN :
           FetchProductChipSearchResponse(t, ok) =>
             /\ selectedCategory' = tasks[t].data[1]
             /\ productsOfSelectedCategory' = tasks[t].data
             /\ productList' =
                  withQty(ServerProducts(tasks[t].data[1].product_ids))
    ]_vars

\* the state of an order attempt in the spec's state machine; Placed is left
\* in the step that enters it, since the PATCH is sent at once
AttemptState(tk) ==
  CASE tk.pc = "post"  -> "Submitting"
    [] tk.pc = "patch" -> "StockUpdatePending"
    [] tk.pc = "done" /\ tk.postOk = "fail"  -> "Failed"
    [] tk.pc = "done" /\ tk.patchOk = "ok"   -> "StockUpdated"
    [] tk.pc = "done" /\ tk.patchOk = "fail" -> "StockUpdateFailed"
    [] OTHER -> "undefined"

AttemptEdges ==
  { <<"Submitting", "StockUpdatePending">>, <<"Submitting", "Failed">>,
    <<"StockUpdatePending", "StockUpdated">>,
    <<"StockUpdatePending", "StockUpdateFailed">> }

\* C17: an order attempt starts in Submitting, one per click; whenever it
\* changes it moves along Submitting -> {StockUpdatePending (via Placed),
\* Failed} or StockUpdatePending -> {StockUpdated, StockUpdateFailed}; it is
\* never removed or restarted, and it has sent one PATCH if its POST succeeded
\* and none otherwise.
C17_AttemptStateMachine ==
  /\ [](\A t \in OrderTasks :
          /\ AttemptState(tasks[t]) # "undefined"
          /\ Len(tasks[t].patches) = IF tasks[t].postOk = "ok" THEN 1 ELSE 0)
  /\ [][ /\ \A t \in OrderTasks :
              /\ t \in DOMAIN tasks' /\ tasks'[t].kind = "handlePlaceOrder"
              /\ tasks'[t] # tasks[t] =>
                   <<AttemptState(tasks[t]), AttemptState(tasks'[t])>>
                      \in AttemptEdges
         /\ \A t \in DOMAIN tasks' :
              (tasks'[t].kind = "handlePlaceOrder" /\ t \notin OrderTasks) =>
                 /\ AttemptState(tasks'[t]) = "Submitting"
                 /\ budget'.orders = budget.orders - 1
                 /\ t = Len(tasks) + 1
                 /\ \A u \in DOMAIN tasks' : u > t => u \in DOMAIN tasks
       ]_vars

\* one attempt ended in StockUpdateFailed with its single PATCH, and the
\* refresh it started has completed
C17_Witness ==
  \E t \in OrderTasks :
    /\ AttemptState(tasks[t]) = "StockUpdateFailed"
    /\ Len(tasks[t].patches) = 1
    /\ tasks[t].refresh \in DOMAIN tasks
    /\ tasks[tasks[t].refresh].pc = "done"

\* C18: a fetchProducts invocation has one request in flight, for the term at
\* idx, and the terms before idx have all resolved, in the order of the
\* preference list; each response resolves exactly that term; the catalog is
\* not written by the invocation before its last term has resolved.
C18_SequentialTerms ==
  /\ [](\A t \in FetchTasks :
          /\ tasks[t].pc = "get" =>
               /\ tasks[t].idx \in 1..Len(tasks[t].prefs)
               /\ Len(tasks[t].outcomes) = tasks[t].idx - 1
          /\ tasks[t].pc = "done" => Len(tasks[t].outcomes) = Len(tasks[t].prefs)
          /\ \A k \in DOMAIN tasks[t].outcomes :
               tasks[t].outcomes[k].ok =>
                 \A j \in DOMAIN tasks[t].outcomes[k].data :
                   tasks[t].outcomes[k].data[j]._id
                     = TermProducts(tasks[t].prefs[k])[j])
  /\ [][ \A t \in FetchTasks, ok \in BOOLEAN :
           FetchProductsResponse(t, ok) =>
             /\ Len(tasks'[t].outcomes) = Len(tasks[t].outcomes) + 1
             /\ SubSeq(tasks'[t].outcomes, 1, Len(tasks[t].outcomes))
                  = tasks[t].outcomes
             /\ tasks[t].idx < Len(tasks[t].prefs) =>
                  /\ tasks'[t].pc = "get" /\ tasks'[t].idx = tasks[t].idx + 1
                  /\ productList' = productList
             /\ tasks[t].idx = Len(tasks[t].prefs) => tasks'[t].pc = "done"
       ]_vars

\* the first term of the initial load has answered with products, the second
\* is in flight, and the catalog is still empty
C18_Witness ==
  \E t \in FetchTasks :
    /\ tasks[t].pc = "get" /\ tasks[t].origin = 0 /\ tasks[t].idx = 2
    /\ tasks[t].outcomes[1].ok /\ Len(tasks[t].outcomes[1].data) > 0
    /\ productList = <<>> /\ selectedCategory = NoCategory

\* the quantities the catalog list shows for product p
Quantities(list, p) ==
  {list[i].quantity : i \in {k \in DOMAIN list : list[k]._id = p}}

CartStep ==
  \E i \in DOMAIN productList : handleIncrement(i) \/ handleDecrement(i)

\* C19 as stated: a step that is not an increment or a decrement leaves the
\* quantity of every product that stays in the catalog as it was.
C19_QuantityOnlyByCart ==
  [][ ~CartStep =>
        \A p \in Products :
          (Quantities(productList, p) # {} /\ Quantities(productList', p) # {})
             => Quantities(productList', p) = Quantities(productList, p)
    ]_vars

\* C19 amended: the catalog is changed by an increment or decrement, or it is
\* replaced by a fetch that completes (or emptied by the click on a category
\* without products), and then every entry has quantity 1 again, whatever the
\* user had chosen; the order click and the answers to POST /orders and to
\* the PATCH leave the catalog as it is.
C19_QuantityByCartOrReset ==
  [][ /\ (productList' # productList /\ ~CartStep) =>
           /\ \A i \in DOMAIN productList' : productList'[i].quantity = 1
           /\ \/ \E t \in DOMAIN tasks :
                   /\ tasks[t].kind \in {"fetchProducts", "fetchProductsByProductIds",
                                         "fetchProductChip"}
                   /\ tasks[t].pc # "done" /\ tasks'[t].pc = "done"
              \/ /\ productList' = <<>>
                 /\ \E c \in Rendered(AllCategories) : handleCategoryClick(c)
      /\ \A i \in DOMAIN productList :
           handlePlaceOrder(i) => productList' = productList
      /\ \A t \in DOMAIN tasks, ok \in BOOLEAN :
           (PlaceOrderResponse(t, ok) \/ UpdateProductResponse(t, ok))
              => productList' = productList
    ]_vars

\* an order was placed with quantity 2, its refresh has completed, and the
\* ordered product is in the catalog with quantity 1 and stock for more
C19_Witness ==
  \E t \in OrderTasks :
    /\ tasks[t].item.quantity = 2 /\ tasks[t].patchOk = "ok"
    /\ tasks[t].refresh \in DOMAIN tasks
    /\ tasks[tasks[t].refresh].pc = "done"
    /\ \E i \in DOMAIN productList :
         /\ productList[i]._id = tasks[t].item._id
         /\ productList[i].quantity = 1
         /\ productList[i].availableQuantity = tasks[t].item.availableQuantity - 2
         /\ productList[i].availableQuantity >= 1

(***************************************************************************)
(* Properties of the user router                                           *)
(***************************************************************************)
LoginCalls == {c \in DOMAIN calls : calls[c].kind = "login"}

StoredHashes == {users[k].password : k \in DOMAIN users}

\* C16: a login answered 200 carries a signed token and a user object with
\* exactly _id, name, email, role and userPreferences of the stored user, the
\* preferences being the empty list when the user has none; every other login
\* answer is a status and a message; no field of any login answer is a stored
\* password hash.
C16_LoginResponse ==
  \A c \in LoginCalls :
    calls[c].pc = "done" =>
      LET res == calls[c].res
      IN IF res.status = 200
         THEN LET user == users[calls[c].user]
              IN /\ DOMAIN res = {"status", "message", "user", "isLoggedIn", "token"}
                 /\ res.token.signed
                 /\ res.token.userId = user._id
                 /\ DOMAIN res.user =
                      {"_id", "name", "email", "role", "userPreferences"}
                 /\ res.user._id = user._id /\ res.user.name = user.name
                 /\ res.user.email = user.email /\ res.user.role = user.role
                 /\ calls[c].doc.password = user.password
                 /\ res.user.userPreferences =
                      IF calls[c].doc.userPreferences.set
                      THEN calls[c].doc.userPreferences.list ELSE <<>>
                 /\ \A f \in {"_id", "name", "email", "role"} :
                      res.user[f] \notin StoredHashes
                 /\ \A f \in {"userId", "email", "role"} :
                      res.token[f] \notin StoredHashes
                 /\ compare(calls[c].body.password, user.password)
         ELSE /\ DOMAIN res = {"status", "message"}
              /\ res.status \in {400, 401, 500}
              /\ res.message \notin StoredHashes

\* a user without stored preferences has registered and then logged in
C16_Witness ==
  \E c \in LoginCalls :
    /\ calls[c].pc = "done" /\ calls[c].res.status = 200
    /\ ~calls[c].doc.userPreferences.set
    /\ calls[c].res.user.userPreferences = <<>>
    /\ calls[c].res.token.signed

\* C20: when every request is answered, all order attempts end in Failed,
\* StockUpdated or StockUpdateFailed and all catalog fetches complete, and
\* stay so; and nothing but the answer to its request moves an invocation
\* that is waiting for one: there is no timeout and no cancellation.
C20_EveryAttemptEnds ==
  /\ <>[](\A t \in DOMAIN tasks : tasks[t].pc = "done")
  /\ [](Len(tasks) <= MaxTasks)
  /\ [](\A t \in OrderTasks :
          tasks[t].pc = "done" =>
            AttemptState(tasks[t]) \in {"Failed", "StockUpdated", "StockUpdateFailed"})
  /\ [][ \A t \in DOMAIN tasks :
           (tasks[t].pc # "done" /\ tasks'[t] # tasks[t]) => RequestResolves(t)
       ]_vars

\* two order attempts and the refresh of the one whose POST succeeded have all
\* come to their end
C20_Witness ==
  /\ \A t \in DOMAIN tasks : tasks[t].pc = "done"
  /\ \E t, u \in OrderTasks :
       /\ AttemptState(tasks[t]) = "Failed"
       /\ AttemptState(tasks[u]) = "StockUpdateFailed"
       /\ tasks[u].refresh \in DOMAIN tasks

\* C21: every stock update the client sends carries availableQuantity >= 0:
\* the entry an order captures has 1 <= quantity <= availableQuantity.
C21_PatchNotNegative ==
  \A t \in OrderTasks :
    /\ tasks[t].item.availableQuantity >= 1
    /\ tasks[t].item.quantity >= 1
    /\ tasks[t].item.quantity <= tasks[t].item.availableQuantity
    /\ \A k \in DOMAIN tasks[t].patches :
         tasks[t].patches[k].availableQuantity >= 0

\* after a first order and its refresh, a second order took all that was left:
\* its stock update carries 0
C21_Witness ==
  \E t, u \in OrderTasks :
    /\ t < u /\ tasks[t].patchOk = "ok"
    /\ tasks[u].item.availableQuantity < InitStock[tasks[u].item._id]
    /\ tasks[u].item.quantity >= 2
    /\ Len(tasks[u].patches) = 1
    /\ tasks[u].patches[1].availableQuantity = 0

\* the catalog a successful lookup of the category's products gives
CatalogOf(category) == withQty(ServerProducts(category.product_ids))

\* C22: when the answer to a category lookup leaves no request in flight, the
\* catalog is the product set of the selected category.
C22_CatalogOfSelected ==
  [][ \A t \in DOMAIN tasks :
        (FetchProductsByProductIdsResponse(t, TRUE) /\ InFlight' = {})
           => productList' = CatalogOf(selectedCategory')
    ]_vars

\* the ids of the catalog entries, in order
Ids(list) == [i \in DOMAIN list |-> list[i]._id]

\* C23: the catalog shows the products of the selected category; when the
\* refresh after an order completes, all its terms answered, the catalog
\* still shows the products of that category.
C23_RefreshKeepsView ==
  [][ \A t \in FetchTasks :
        ( /\ FetchProductsResponse(t, TRUE)
          /\ tasks[t].origin # 0 /\ tasks'[t].pc = "done"
          /\ \A k \in DOMAIN tasks'[t].outcomes : tasks'[t].outcomes[k].ok
          /\ Ids(productList) = selectedCategory.product_ids )
        => Ids(productList') = selectedCategory'.product_ids
    ]_vars

\* the state SpecSelected starts in
SelectedMap ==
  /\ session = [_id |-> "u1", userPreferences |-> <<"pizza", "sushi">>]
  /\ mounted /\ stock = InitStock /\ orders = <<>>
  /\ productList = withQty(InitProducts(Category("c1").product_ids))
  /\ productsOfSelectedCategory = <<>> /\ foodCategories = AllCategories
  /\ selectedCategory = Category("c1")
  /\ tasks = Append(LoadedTasks, DoneTask("fetchProductsByProductIds"))

\* the sessions fetchProducts does nothing for
NoSession == session._id = "none" \/ Len(session.userPreferences) = 0

\* C24: in a session without user id or without preferences fetchProducts
\* never sends a request, while Place Order works as in any session: the POST
\* carries the session's id (none when there is none), a successful POST is
\* followed by the PATCH, and the refresh after the PATCH starts nothing and
\* leaves the catalog, with the availableQuantity of before the order.
C24_NoSessionOrder ==
  /\ [](NoSession =>
          /\ FetchTasks = {}
          /\ \A i \in DOMAIN productList :
               (productList[i].availableQuantity >= 1 /\ budget.orders > 0)
                  => ENABLED handlePlaceOrder(i)
          /\ \A t \in OrderTasks :
               /\ tasks[t].payload.bookedById = session._id
               /\ tasks[t].postOk = "ok" => Len(tasks[t].patches) = 1
               /\ (tasks[t].pc = "done" /\ tasks[t].postOk = "ok") =>
                    tasks[t].refreshCalled /\ tasks[t].refresh = 0)
  /\ [][ NoSession =>
           \A t \in DOMAIN tasks, ok \in BOOLEAN :
             UpdateProductResponse(t, ok) =>
               /\ productList' = productList
               /\ Len(tasks') = Len(tasks)
       ]_vars

\* without a user id an order was recorded and the stock lowered; nothing is
\* in flight and the catalog shows the product with the stock of before
C24_Witness ==
  /\ session._id = "none" /\ InFlight = {}
  /\ \E t \in OrderTasks :
       /\ tasks[t].patchOk = "ok" /\ tasks[t].payload.bookedById = "none"
       /\ tasks[t].payload \in Recorded
       /\ stock[tasks[t].item._id]
            = tasks[t].item.availableQuantity - tasks[t].item.quantity
       /\ \E i \in DOMAIN productList :
            /\ productList[i]._id = tasks[t].item._id
            /\ productList[i].availableQuantity = tasks[t].item.availableQuantity

\* C25: the PATCH of an order attempt lowers the availableQuantity of the
\* entry captured at the click by the quantity its POST carried, for the
\* product of the POST, whatever happened to the catalog in between.
C25_SameQuantity ==
  \A t \in OrderTasks :
    \A k \in DOMAIN tasks[t].patches :
      /\ tasks[t].patches[k]._id = tasks[t].payload.productId
      /\ tasks[t].patches[k].availableQuantity
           = tasks[t].item.availableQuantity - tasks[t].payload.quantity

\* the order was posted with quantity 2; while the POST was in flight the
\* user went back to 1; the PATCH in flight subtracts 2
C25_Witness ==
  \E t \in OrderTasks :
    /\ tasks[t].pc = "patch" /\ tasks[t].payload.quantity = 2
    /\ Len(tasks[t].patches) = 1
    /\ tasks[t].patches[1].availableQuantity = tasks[t].item.availableQuantity - 2
    /\ \A i \in DOMAIN productList :
         productList[i]._id = tasks[t].item._id =>
           /\ productList[i].quantity = 1
           /\ productList[i].availableQuantity = tasks[t].item.availableQuantity
    /\ \E i \in DOMAIN productList : productList[i]._id = tasks[t].item._id

\* C26: when a chip retrieval completes and has made the first returned
\* category the selected one, the catalog holds the products of that category.
C26_ChipAndCatalogAgree ==
  [][ \A t \in DOMAIN tasks :
        ( /\ tasks[t].kind = "fetchProductChip" /\ tasks[t].pc # "done"
          /\ tasks'[t].pc = "done"
          /\ Len(productsOfSelectedCategory') > 0
          /\ selectedCategory' = productsOfSelectedCategory'[1]
          /\ \/ selectedCategory' # selectedCategory
             \/ tasks[t].pc = "search" )
        => Ids(productList') = selectedCategory'.product_ids
    ]_vars

RegisterCalls == {c \in DOMAIN calls : calls[c].kind = "register"}

\* C27: there is at most one user per e-mail, and a registration whose e-mail
\* is already stored when it comes to create the user is answered 400 "Email
\* already taken" and creates nothing.
C27_EmailUnique ==
  /\ [](\A j, k \in DOMAIN users : users[j].email = users[k].email => j = k)
  /\ [](\A c \in RegisterCalls :
          calls[c].res.status = 400 => calls[c].res.message = "Email already taken")
  /\ [][ \A c \in RegisterCalls, ok \in BOOLEAN :
           ( /\ RegisterCreateResponse(c, ok)
             /\ findOne(calls[c].body.email) # 0 )
           => /\ users' = users
              /\ calls'[c].res = Reply(400, "Email already taken")
       ]_vars

\* the login of call c was refused for its credentials
Refused(c) ==
  /\ calls[c].kind = "login" /\ calls[c].pc = "done"
  /\ calls[c].body.email # Missing /\ calls[c].body.password # Missing
  /\ calls[c].res.status \notin {200, 500}

\* C28: a login refused for an unknown e-mail and a login refused for a wrong
\* password get the same answer, 401 "Invalid email or password" with no
\* token and no user; a wrong password is always refused; no step of a login
\* changes the stored users.
C28_FailedLoginUniform ==
  /\ [](\A c \in LoginCalls :
          /\ Refused(c) => calls[c].res = Reply(401, "Invalid email or password")
          /\ ( /\ calls[c].pc = "done" /\ calls[c].user # 0
               /\ ~compare(calls[c].body.password, users[calls[c].user].password) )
             => Refused(c)
          /\ calls[c].res.status = 200 =>
               /\ calls[c].user # 0
               /\ compare(calls[c].body.password, users[calls[c].user].password))
  /\ [](\A c, d \in LoginCalls :
          (Refused(c) /\ Refused(d)) => calls[c].res = calls[d].res)
  /\ [][ ( \/ \E body \in LoginBodies : loginRequest(body)
           \/ \E c \in DOMAIN calls, ok \in BOOLEAN : LoginFindOneResponse(c, ok)
           \/ \E c \in DOMAIN calls : LoginCompareResponse(c) )
         => users' = users
       ]_vars

\* one login was refused for an unknown e-mail, another for a wrong password
\* of a stored user
C28_Witness ==
  \E c, d \in LoginCalls :
    /\ Refused(c) /\ calls[c].user = 0 /\ findOne(calls[c].body.email) = 0
    /\ Refused(d) /\ calls[d].user # 0
    /\ calls[c].res = calls[d].res

(***************************************************************************)
(* Properties of saving preferences                                        *)
(***************************************************************************)
AddPreferencesCalls == {c \in DOMAIN calls : calls[c].kind = "addPreferences"}

\* C29: handleNext sends nothing for an empty selection and else one PATCH
\* for the session's user with the selection; isSubmitting is true exactly
\* while that request is awaited; the store's userPreferences become the sent
\* selection when the request succeeded and are left alone otherwise. The
\* server replaces the stored list by the sent one, answers 400 to a body
\* that is no array and 404 for an unknown user, and changes a stored user
\* only when a save succeeds.
C29_SavingPreferences ==
  /\ [](page.isSubmitting <=> page.pc = "patch")
  /\ [](page.pc = "patch" =>
          /\ page.call \in AddPreferencesCalls
          /\ calls[page.call].id = session._id
          /\ calls[page.call].body = [kind |-> "array", list |-> page.sent]
          /\ Len(page.sent) > 0)
  /\ [](\A c \in AddPreferencesCalls :
          calls[c].pc = "done" =>
            /\ calls[c].body.kind # "array" =>
                 calls[c].res = Reply(400, "Invalid preferences format")
            /\ calls[c].res.status = 404 => findById(calls[c].id) = 0
            /\ calls[c].res.status = 200 =>
                 calls[c].res.userPreferences = calls[c].body.list)
  /\ [][ handleNext =>
           IF Len(page.favouriteProducts) = 0
           THEN calls' = calls /\ ~page'.isSubmitting /\ session' = session
           ELSE /\ Len(calls') = Len(calls) + 1 /\ page'.isSubmitting
                /\ page'.sent = page.favouriteProducts
       ]_vars
  /\ [][ \A ok \in BOOLEAN :
           HandleNextResponse(ok) =>
             /\ ~page'.isSubmitting
             /\ session'._id = session._id
             /\ session'.userPreferences =
                  IF ok /\ calls[page.call].res.status = 200
                  THEN page.sent ELSE session.userPreferences
       ]_vars
  /\ [][ session' # session =>
           /\ page.pc = "patch" /\ calls[page.call].res.status = 200
           /\ session'.userPreferences = page.sent
       ]_vars
  /\ [][ \A c \in AddPreferencesCalls, ok \in BOOLEAN :
           AddPreferencesSaveResponse(c, ok) =>
             IF ok
             THEN /\ users'[calls[c].user].userPreferences
                       = [set |-> TRUE, list |-> calls[c].body.list]
                  /\ \A k \in DOMAIN users :
                       k # calls[c].user => users'[k] = users[k]
             ELSE users' = users
       ]_vars
  /\ [][ users' # users =>
           \E c \in AddPreferencesCalls :
             calls[c].pc = "save" /\ calls'[c].res.status = 200
       ]_vars

\* the selection [sushi] was saved: the request has returned, the store and
\* the stored user hold [sushi] in place of [pizza, sushi], and isSubmitting
\* is false again
C29_Witness ==
  /\ page.pc = "left" /\ ~page.isSubmitting /\ page.sent = <<"sushi">>
  /\ session.userPreferences = <<"sushi">>
  /\ users[1].userPreferences.list = <<"sushi">>
  /\ calls[page.call].res.status = 200

====
